---- MODULE Spec2Model ----
(***************************************************************************)
(* Model of scripts/publish.py, the PyFrame publishing script: the         *)
(* interactive workflow main() and the helpers it calls.                   *)
(*                                                                         *)
(* A line of text is a sequence of one-character strings.  The entries     *)
(* 'build', 'dist' and '*.egg-info' of the current directory are each      *)
(* absent, a directory or a regular file.  A child process is modelled by  *)
(* the return code it exits with; the build child, when it succeeds,       *)
(* leaves the directory dist behind, which check and upload are given as   *)
(* 'dist/*'.  Every input() is taken to return a line.                     *)
(***************************************************************************)
EXTENDS Integers, Sequences, FiniteSets, TLC

\* Bounds of the model.
MaxLen == 3
NumEggs == 1
MaxCleanCalls == 3

VARIABLES
    pc,           \* position in main(); "lib" when clean_build() is called directly
    exitStatus,   \* exit status of the process; -1 while it runs
    pyproject,    \* os.path.exists("pyproject.toml")
    importable,   \* the packages __import__ can resolve
    fs,           \* kind of each artifact path in the current directory
    fs0,          \* fs when the process started
    fsBefore,     \* fs before the latest clean_build() call
    removed,      \* the paths the latest clean_build() call removed
    cleanCalls,   \* number of clean_build() calls made
    statusLines,  \* the per-package lines check_requirements() printed
    prompts,      \* number of input() calls made
    choice,       \* main(): choice
    confirmLine,  \* the raw line the confirmation prompt received
    confirm,      \* main(): confirm
    trace,        \* the side effects so far: clean_build calls and child processes
    out           \* tags of the messages main() printed

vars == <<pc, exitStatus, pyproject, importable, fs, fs0, fsBefore, removed,
          cleanCalls, statusLines, prompts, choice, confirmLine, confirm, trace,
          out>>

----------------------------------------------------------------------------
\* Text

Whitespace == {" "}
MenuChars == {"1", "2", "3", "4", " "}
ConfirmChars == {"y", "Y", "n", "N", "e", "s", " "}

SeqsUpTo(S, n) == UNION {[1..k -> S] : k \in 0..n}
MenuLines == SeqsUpTo(MenuChars, MaxLen)
ConfirmLines == SeqsUpTo(ConfirmChars, MaxLen)

RECURSIVE LStrip(_)
LStrip(s) ==
    IF s # <<>> /\ Head(s) \in Whitespace THEN LStrip(Tail(s)) ELSE s

RECURSIVE RStrip(_)
RStrip(s) ==
    IF s # <<>> /\ s[Len(s)] \in Whitespace
    THEN RStrip(SubSeq(s, 1, Len(s) - 1))
    ELSE s

\* str.strip()
Strip(s) == RStrip(LStrip(s))

LowerChar(c) ==
    CASE c = "Y" -> "y"
      [] c = "N" -> "n"
      [] OTHER -> c

\* str.lower()
Lower(s) == [i \in 1..Len(s) |-> LowerChar(s[i])]

----------------------------------------------------------------------------
\* run_command

ReturnCodes == {0, 1, 2}

\* True iff the child process exited with return code 0.
run_command(returncode) == returncode = 0

----------------------------------------------------------------------------
\* check_requirements

required_packages == <<"build", "twine">>

StatusLine(package, ok) == [package |-> package, installed |-> ok]

RECURSIVE CheckFrom(_, _, _)
CheckFrom(packages, imp, lines) ==
    IF packages = <<>>
    THEN [ok |-> TRUE, lines |-> lines]
    ELSE IF Head(packages) \in imp
         THEN CheckFrom(Tail(packages), imp,
                        Append(lines, StatusLine(Head(packages), TRUE)))
         ELSE [ok |-> FALSE,
               lines |-> Append(lines, StatusLine(Head(packages), FALSE))]

\* check_requirements with the whole list tried whatever fails.
check_requirements_all(imp) ==
    [ok |-> \A i \in DOMAIN required_packages : required_packages[i] \in imp,
     lines |-> [i \in DOMAIN required_packages |->
                    StatusLine(required_packages[i], required_packages[i] \in imp)]]

check_requirements(imp) == CheckFrom(required_packages, imp, <<>>)

----------------------------------------------------------------------------
\* clean_build

Kinds == {"absent", "dir", "file"}
EggName(i) == "pkg" \o ToString(i) \o ".egg-info"
EggPaths == {EggName(i) : i \in 1..NumEggs}
Paths == {"build", "dist"} \cup EggPaths
FsStates == [Paths -> Kinds]

\* dirs_to_clean with the distribution directory forgotten.
dirs_to_clean_no_dist == <<"build", "*.egg-info">>

dirs_to_clean == <<"build", "dist", "*.egg-info">>

\* '*' in pattern
IsGlob(pattern) == pattern = "*.egg-info"

\* glob.glob(pattern): the entries of the current directory matching it
glob(f, pattern) == {p \in EggPaths : f[p] # "absent"}

exists(f, path) == f[path] # "absent"
isdir(f, path) == f[path] = "dir"

\* shutil.rmtree(path): removes a directory tree, raises on anything else
rmtree(f, path) ==
    IF f[path] = "dir"
    THEN [fs |-> [f EXCEPT ![path] = "absent"], raised |-> FALSE]
    ELSE [fs |-> f, raised |-> TRUE]

RECURSIVE CleanFrom(_, _, _)
CleanFrom(patterns, f, gone) ==
    IF patterns = <<>>
    THEN [fs |-> f, removed |-> gone, raised |-> FALSE]
    ELSE LET pattern == Head(patterns) IN
         IF IsGlob(pattern)
         THEN LET hit == {p \in glob(f, pattern) : isdir(f, p)} IN
              CleanFrom(Tail(patterns),
                        [p \in Paths |-> IF p \in hit THEN rmtree(f, p).fs[p] ELSE f[p]],
                        gone \cup hit)
         ELSE IF exists(f, pattern)
              THEN LET r == rmtree(f, pattern) IN
                   IF r.raised
                   THEN [fs |-> r.fs, removed |-> gone, raised |-> TRUE]
                   ELSE CleanFrom(Tail(patterns), r.fs, gone \cup {pattern})
              ELSE CleanFrom(Tail(patterns), f, gone)

clean_build(f) == CleanFrom(dirs_to_clean, f, {})

\* build_package: what "python -m build" leaves in the current directory.
\* On success the archives are in the directory dist.
build_package_writes(f, ok) == IF ok THEN [f EXCEPT !["dist"] = "dir"] ELSE f

----------------------------------------------------------------------------
\* main: where each step goes next.  "exit0" is a return from main(),
\* "exit1" is sys.exit(1) or an uncaught exception.

\* main() without the exit after the marker file check.
AfterMarkerNoExit(present) == "requirements"

AfterMarker(present) == IF present THEN "requirements" ELSE "exit1"

AfterRequirements(ok) == IF ok THEN "menu" ELSE "exit1"

\* main() returning, not exiting with 1, on an invalid choice.
AfterChoiceInvalidReturns(c) ==
    IF c = <<"4">> THEN "clean"
    ELSE IF c \notin {<<"1">>, <<"2">>, <<"3">>} THEN "exit0"
    ELSE "clean"

AfterChoice(c) ==
    IF c = <<"4">> THEN "clean"
    ELSE IF c \notin {<<"1">>, <<"2">>, <<"3">>} THEN "exit1"
    ELSE "clean"

AfterClean(c, raised) ==
    IF raised THEN "exit1"
    ELSE IF c = <<"4">> THEN "exit0"
    ELSE "build"

\* main() building again after a failed build, up to two more times.
AfterBuildRetry(ok) ==
    IF ok THEN "check"
    ELSE IF Len(trace) < 3 THEN "build"
    ELSE "exit1"

AfterBuild(ok) == IF ok THEN "check" ELSE "exit1"

\* main() going on after a failed check.
AfterCheckIgnoresFailure(c, ok) ==
    IF c = <<"1">> THEN "exit0"
    ELSE IF c = <<"2">> THEN "upload_test"
    ELSE "confirm"

AfterCheck(c, ok) ==
    IF ~ok THEN "exit1"
    ELSE IF c = <<"1">> THEN "exit0"
    ELSE IF c = <<"2">> THEN "upload_test"
    ELSE "confirm"

\* main() taking every answer but "n" as a confirmation.
AfterConfirmDeclinesOnlyNo(cf) == IF cf = <<"n">> THEN "exit1" ELSE "upload_pypi"

AfterConfirm(cf) == IF cf # <<"y">> THEN "exit1" ELSE "upload_pypi"

AfterUpload(ok) == IF ok THEN "exit0" ELSE "exit1"

\* What main() prints after an upload: on success the project URL and the
\* install hint of the index.
\* main() printing the staging URL whatever the upload returned.
TestPypiMessagesAlwaysUrl(ok) ==
    <<"testpypi_uploaded", "testpypi_url", "testpypi_install_hint">>

TestPypiMessages(ok) ==
    IF ok THEN <<"testpypi_uploaded", "testpypi_url", "testpypi_install_hint">>
    ELSE <<"testpypi_failed">>

PypiMessages(ok) ==
    IF ok THEN <<"pypi_uploaded", "pypi_url", "pypi_install_hint">>
    ELSE <<"pypi_failed">>

Goto(target) ==
    IF target = "exit0" THEN pc' = "exited" /\ exitStatus' = 0
    ELSE IF target = "exit1" THEN pc' = "exited" /\ exitStatus' = 1
    ELSE pc' = target /\ UNCHANGED exitStatus

Event(cmd, rc) == [cmd |-> cmd, rc |-> rc]

Say(tags) == out' = out \o tags

----------------------------------------------------------------------------
\* main: the steps

CheckMarker ==
    /\ pc = "start"
    /\ Goto(AfterMarker(pyproject))
    /\ Say(IF pyproject THEN <<>> ELSE <<"pyproject_not_found">>)
    /\ UNCHANGED <<prompts, pyproject, importable, fs, fs0, fsBefore, removed, cleanCalls,
                   statusLines, choice, confirmLine, confirm, trace>>

CheckRequirements ==
    /\ pc = "requirements"
    /\ LET r == check_requirements(importable) IN
        /\ statusLines' = r.lines
        /\ Goto(AfterRequirements(r.ok))
        /\ Say(IF r.ok THEN <<"menu">> ELSE <<"install_required">>)
    /\ UNCHANGED <<prompts, pyproject, importable, fs, fs0, fsBefore, removed, cleanCalls,
                   choice, confirmLine, confirm, trace>>

ReadChoice ==
    /\ pc = "menu"
    /\ \E line \in MenuLines :
        /\ prompts' = prompts + 1
        /\ choice' = Strip(line)
        /\ Goto(AfterChoice(choice'))
        /\ Say(IF AfterChoice(choice') = "exit1" THEN <<"invalid_choice">> ELSE <<>>)
    /\ UNCHANGED <<pyproject, importable, fs, fs0, fsBefore, removed, cleanCalls,
                   statusLines, confirmLine, confirm, trace>>

CleanStep ==
    /\ pc = "clean"
    /\ LET r == clean_build(fs) IN
        /\ fsBefore' = fs
        /\ fs' = r.fs
        /\ removed' = r.removed
        /\ cleanCalls' = cleanCalls + 1
        /\ trace' = Append(trace, Event("clean", IF r.raised THEN 1 ELSE 0))
        /\ Goto(AfterClean(choice, r.raised))
        /\ Say(IF AfterClean(choice, r.raised) = "exit0" THEN <<"cleaned">> ELSE <<>>)
    /\ UNCHANGED <<prompts, pyproject, importable, fs0, statusLines, choice, confirmLine,
                   confirm>>

BuildPackage ==
    /\ pc = "build"
    /\ \E rc \in ReturnCodes :
        /\ trace' = Append(trace, Event("build", rc))
        /\ fs' = build_package_writes(fs, run_command(rc))
        /\ Goto(AfterBuild(run_command(rc)))
        /\ Say(IF run_command(rc) THEN <<>> ELSE <<"build_failed">>)
    /\ UNCHANGED <<prompts, pyproject, importable, fs0, fsBefore, removed, cleanCalls,
                   statusLines, choice, confirmLine, confirm>>

CheckPackage ==
    /\ pc = "check"
    /\ \E rc \in ReturnCodes :
        /\ trace' = Append(trace, Event("check", rc))
        /\ Goto(AfterCheck(choice, run_command(rc)))
        /\ Say(IF ~run_command(rc) THEN <<"check_failed">>
               ELSE IF choice = <<"1">> THEN <<"built_and_checked", "ready_in_dist">>
               ELSE <<"built_and_checked">>)
    /\ UNCHANGED <<prompts, pyproject, importable, fs, fs0, fsBefore, removed, cleanCalls,
                   statusLines, choice, confirmLine, confirm>>

UploadToTestPypi ==
    /\ pc = "upload_test"
    /\ \E rc \in ReturnCodes :
        /\ trace' = Append(trace, Event("upload_testpypi", rc))
        /\ Goto(AfterUpload(run_command(rc)))
        /\ Say(TestPypiMessages(run_command(rc)))
    /\ UNCHANGED <<prompts, pyproject, importable, fs, fs0, fsBefore, removed, cleanCalls,
                   statusLines, choice, confirmLine, confirm>>

Confirm ==
    /\ pc = "confirm"
    /\ \E line \in ConfirmLines :
        /\ prompts' = prompts + 1
        /\ confirmLine' = line
        /\ confirm' = Lower(Strip(line))
        /\ Goto(AfterConfirm(confirm'))
        /\ Say(IF AfterConfirm(confirm') = "exit1" THEN <<"upload_cancelled">> ELSE <<>>)
    /\ UNCHANGED <<pyproject, importable, fs, fs0, fsBefore, removed, cleanCalls,
                   statusLines, choice, trace>>

UploadToPypi ==
    /\ pc = "upload_pypi"
    /\ \E rc \in ReturnCodes :
        /\ trace' = Append(trace, Event("upload_pypi", rc))
        /\ Goto(AfterUpload(run_command(rc)))
        /\ Say(PypiMessages(run_command(rc)))
    /\ UNCHANGED <<prompts, pyproject, importable, fs, fs0, fsBefore, removed, cleanCalls,
                   statusLines, choice, confirmLine, confirm>>

Environment ==
    /\ pyproject \in BOOLEAN
    /\ importable \in SUBSET {"build", "twine"}
    /\ fs \in FsStates
    /\ fs0 = fs
    /\ fsBefore = fs
    /\ removed = {}
    /\ cleanCalls = 0
    /\ exitStatus = -1
    /\ statusLines = <<>>
    /\ prompts = 0
    /\ choice = <<>>
    /\ confirmLine = <<>>
    /\ confirm = <<>>
    /\ trace = <<>>
    /\ out = <<>>

\* A run of the script.
Init == pc = "start" /\ Environment

Next ==
    \/ CheckMarker
    \/ CheckRequirements
    \/ ReadChoice
    \/ CleanStep
    \/ BuildPackage
    \/ CheckPackage
    \/ UploadToTestPypi
    \/ Confirm
    \/ UploadToPypi

Spec == Init /\ [][Next]_vars

\* Each step of main() is taken once it can be: a prompt receives its line
\* and a child process exits.
FairSpec == Spec /\ WF_vars(Next)

----------------------------------------------------------------------------
\* clean_build() called on its own, any number of times in succession.

CleanBuildCall ==
    /\ pc = "lib"
    /\ cleanCalls < MaxCleanCalls
    /\ LET r == clean_build(fs) IN
        /\ fsBefore' = fs
        /\ fs' = r.fs
        /\ removed' = r.removed
        /\ cleanCalls' = cleanCalls + 1
        /\ trace' = Append(trace, Event("clean", IF r.raised THEN 1 ELSE 0))
    /\ UNCHANGED <<pc, exitStatus, prompts, pyproject, importable, fs0, statusLines, choice,
                   confirmLine, confirm, out>>

InitClean ==
    /\ pc = "lib"
    /\ Environment
    /\ pyproject
    /\ importable = {"build", "twine"}

NextClean == CleanBuildCall

SpecClean == InitClean /\ [][NextClean]_vars

----------------------------------------------------------------------------
\* Reading the history of a run

Invoked(cmd) == \E i \in DOMAIN trace : trace[i].cmd = cmd
Succeeded(cmd) == \E i \in DOMAIN trace : trace[i].cmd = cmd /\ trace[i].rc = 0
Failed(cmd) == \E i \in DOMAIN trace : trace[i].cmd = cmd /\ trace[i].rc # 0
Count(cmd) == Cardinality({i \in DOMAIN trace : trace[i].cmd = cmd})
Cmds == [i \in DOMAIN trace |-> trace[i].cmd]
Printed(tag) == \E i \in DOMAIN out : out[i] = tag
Uploads == {"upload_testpypi", "upload_pypi"}
NoUpload == \A i \in DOMAIN trace : trace[i].cmd \notin Uploads
Exited == pc = "exited"
AllImportable == \A i \in DOMAIN required_packages : required_packages[i] \in importable

\* A line that is the letter y in either case, with nothing but whitespace
\* around it.
IsYes(line) ==
    \E i \in DOMAIN line :
        /\ line[i] \in {"y", "Y"}
        /\ \A j \in DOMAIN line \ {i} : line[j] \in Whitespace

----------------------------------------------------------------------------
\* C1: for menu choice "3" the production upload is invoked only if the
\* confirmation line, trimmed and lower-cased, is exactly "y"; with any other
\* confirmation line the run exits non-zero with no upload of any kind.
ProductionUploadNeedsYes ==
    /\ Invoked("upload_pypi") => choice = <<"3">> /\ IsYes(confirmLine)
    /\ (choice = <<"3">> /\ ~IsYes(confirmLine)) =>
            /\ NoUpload
            /\ Exited => exitStatus # 0

\* C1: a run that reached the confirmation prompt and answered "yes".
DeclinedWithYesWord ==
    /\ Exited
    /\ choice = <<"3">>
    /\ Succeeded("check")
    /\ prompts = 2
    /\ confirmLine = <<"y", "e", "s">>
    /\ exitStatus = 1

\* C2: check runs only after a successful build, an upload only after a
\* successful build and a successful check, and a failed build or check ends
\* the run with a non-zero status and no upload.
ShortCircuit ==
    /\ \A i \in DOMAIN trace :
        trace[i].cmd = "check" =>
            \E j \in 1..(i - 1) : trace[j] = Event("build", 0)
    /\ \A i \in DOMAIN trace :
        trace[i].cmd \in Uploads =>
            \E j, k \in 1..(i - 1) :
                /\ j < k
                /\ trace[j] = Event("build", 0)
                /\ trace[k] = Event("check", 0)
    /\ (Failed("build") \/ Failed("check")) =>
            Exited /\ exitStatus # 0 /\ NoUpload
    /\ Failed("build") => ~Invoked("check")

\* C2: a run for the staging upload whose check command failed.
CheckFailedBeforeUpload ==
    /\ Exited
    /\ choice = <<"2">>
    /\ Succeeded("build")
    /\ Failed("check")
    /\ exitStatus = 1

\* The side effects the menu choice c stands for.
ExpectedEffects(c) ==
    CASE c = <<"4">> -> <<"clean">>
      [] c = <<"1">> -> <<"clean", "build", "check">>
      [] c = <<"2">> -> <<"clean", "build", "check", "upload_testpypi">>
      [] c = <<"3">> -> <<"clean", "build", "check", "upload_pypi">>

\* C3: with the marker file present, the tools resolved, every child process
\* succeeding and, for choice "3", the confirmation given, a finished run has
\* made exactly the side effects of its menu choice, in order.
ExactSideEffects ==
    ( /\ Exited
      /\ pyproject
      /\ AllImportable
      /\ choice \in {<<"1">>, <<"2">>, <<"3">>, <<"4">>}
      /\ \A i \in DOMAIN trace : trace[i].cmd # "clean" => trace[i].rc = 0
      /\ choice = <<"3">> => IsYes(confirmLine) )
    => Cmds = ExpectedEffects(choice)

\* C4: when pyproject.toml is absent or a required package does not resolve,
\* the run exits non-zero without reading the menu, running any child process
\* or touching the artifact paths.
PreconditionAbort ==
    (pc \notin {"start", "requirements"} /\ (~pyproject \/ ~AllImportable)) =>
        /\ Exited
        /\ exitStatus # 0
        /\ prompts = 0
        /\ trace = <<>>
        /\ cleanCalls = 0
        /\ fs = fs0

\* C4: twine missing in a directory that holds artifact directories.
MissingToolAbort ==
    /\ Exited
    /\ pyproject
    /\ "build" \in importable
    /\ "twine" \notin importable
    /\ fs0["dist"] = "dir"
    /\ fs0["build"] = "dir"

\* The ways main() returns: after cleaning only, after building and checking
\* only, and after an upload that succeeded.
CompletedNormally ==
    \/ choice = <<"4">> /\ Succeeded("clean")
    \/ choice = <<"1">> /\ Succeeded("build") /\ Succeeded("check")
    \/ choice = <<"2">> /\ Succeeded("upload_testpypi")
    \/ choice = <<"3">> /\ Succeeded("upload_pypi")

\* C5: a finished run has status zero exactly when it completed normally,
\* and a non-zero status after a missing marker file, a missing tool, a menu
\* input outside "1".."4", a failed build, check or upload, and a declined
\* confirmation.
ExitStatusContract ==
    Exited =>
        /\ exitStatus = 0 <=> CompletedNormally
        /\ ~pyproject => exitStatus # 0
        /\ ~AllImportable => exitStatus # 0
        /\ (prompts >= 1 /\ choice \notin {<<"1">>, <<"2">>, <<"3">>, <<"4">>})
                => exitStatus # 0
        /\ Failed("build") => exitStatus # 0
        /\ Failed("check") => exitStatus # 0
        /\ (prompts = 2 /\ ~IsYes(confirmLine)) => exitStatus # 0
        /\ (Failed("upload_testpypi") \/ Failed("upload_pypi")) => exitStatus # 0

\* C5: a run that ended at the menu on an input that is no choice.
InvalidChoiceExit ==
    /\ Exited
    /\ prompts = 1
    /\ choice = <<"1", "2">>
    /\ exitStatus = 1

\* C3, aside: the side effects are those of the menu choice in every run in
\* which clean_build() returned.
ExactSideEffectsWhenCleanReturns == ~Failed("clean") => ExactSideEffects

\* C6: the project URL and install hint of an index are printed exactly when
\* the upload to that index was run and succeeded; a failed staging upload
\* ends the run non-zero, and a declined confirmation or failed production
\* upload prints no production URL.
UrlOnlyAfterUpload ==
    /\ Printed("testpypi_url") <=> Succeeded("upload_testpypi")
    /\ Printed("testpypi_install_hint") <=> Succeeded("upload_testpypi")
    /\ Printed("pypi_url") <=> Succeeded("upload_pypi")
    /\ Printed("pypi_install_hint") <=> Succeeded("upload_pypi")
    /\ Failed("upload_testpypi") =>
            Exited /\ exitStatus # 0 /\ ~Printed("testpypi_url")
    /\ ((prompts = 2 /\ ~IsYes(confirmLine)) \/ Failed("upload_pypi")) =>
            ~Printed("pypi_url")

\* C6: a run whose staging upload failed.
StagingUploadFailed ==
    /\ Exited
    /\ choice = <<"2">>
    /\ Failed("upload_testpypi")
    /\ exitStatus = 1

\* check_requirements() has returned.
RequirementsChecked == pyproject /\ pc \notin {"start", "requirements", "lib"}

\* C7 as stated: check_requirements() tries every required package and
\* prints a status line for each, also after one failed to resolve, and
\* returns true only if all resolved.
ResolvesEveryTool ==
    RequirementsChecked =>
        /\ Len(statusLines) = Len(required_packages)
        /\ \A i \in DOMAIN required_packages :
                statusLines[i].package = required_packages[i]
        /\ Printed("menu") => AllImportable

Missing == {i \in DOMAIN required_packages : required_packages[i] \notin importable}
FirstMissing == CHOOSE i \in Missing : \A j \in Missing : i <= j

\* C7 amended: check_requirements() tries the required packages in order and
\* stops at the first that does not resolve: it prints a status line for each
\* package up to and including that one, none for the packages after it, and
\* returns true only if all resolved.
StopsAtFirstMissingTool ==
    RequirementsChecked =>
        /\ Len(statusLines) =
                IF Missing = {} THEN Len(required_packages) ELSE FirstMissing
        /\ \A i \in DOMAIN statusLines :
                statusLines[i] =
                    StatusLine(required_packages[i], required_packages[i] \in importable)
        /\ Printed("menu") <=> AllImportable
        /\ Printed("install_required") <=> ~AllImportable

\* C7: build does not resolve, twine would.
FirstToolMissing ==
    /\ RequirementsChecked
    /\ importable = {"twine"}
    /\ Len(statusLines) = 1
    /\ Exited

\* C8 as stated: clean_build() never raises, so choices "1", "2" and "3"
\* always reach the build command after cleaning, and clean_build() leaves
\* an absent path absent and does not report it removed.
CleaningCannotFail ==
    /\ ~Failed("clean")
    /\ (Invoked("clean") /\ choice \in {<<"1">>, <<"2">>, <<"3">>}) =>
            pc = "build" \/ Invoked("build")
    /\ \A p \in Paths :
            fsBefore[p] = "absent" =>
                /\ p \notin removed
                /\ ~Invoked("build") => fs[p] = "absent"

DirsOnly(f) == \A p \in Paths : f[p] \in {"absent", "dir"}

\* C9: starting with each artifact path absent or a directory, one
\* clean_build() leaves none of them, and a further clean_build() removes
\* nothing and leaves the directory as the one before it did.
CleanIsIdempotent ==
    DirsOnly(fs0) =>
        /\ cleanCalls >= 1 =>
                /\ \A p \in Paths : fs[p] = "absent"
                /\ ~Failed("clean")
        /\ cleanCalls = 1 => removed = {p \in Paths : fs0[p] = "dir"}
        /\ cleanCalls >= 2 => fs = fsBefore /\ removed = {}

\* C9: clean_build() run twice on a directory holding artifact directories.
CleanedTwice ==
    /\ cleanCalls = 2
    /\ fs0["build"] = "dir"
    /\ fs0["dist"] = "dir"
    /\ \E p \in EggPaths : fs0[p] = "dir"
    /\ DirsOnly(fs0)

\* C10: in a run, clean_build and each command are invoked at most once, at
\* most one upload is made, so nothing is tried again after it failed; and,
\* each prompt receiving a line and each child process exiting, the run ends.
SingleShot ==
    /\ [](/\ \A c \in {"clean", "build", "check"} \cup Uploads : Count(c) <= 1
          /\ Count("upload_testpypi") + Count("upload_pypi") <= 1
          /\ cleanCalls <= 1)
    /\ <>Exited

\* C10: a run that ended on a failed build, made once.
BuildFailedOnce ==
    /\ Exited
    /\ Failed("build")
    /\ Count("build") = 1
    /\ Len(trace) = 2

====
